---- MODULE Spec2Model ----
(***************************************************************************)
(* Library management system of exercises/src/project.py: the helper       *)
(* functions generate_id and search_items, the Book and Borrower classes,  *)
(* and the Library aggregate with its two JSON documents.                  *)
(*                                                                         *)
(* Python values are represented as follows.                               *)
(*   str    a sequence of one-character strings, <<"D","u","n","e">>       *)
(*   bool   TRUE / FALSE                                                   *)
(*   list   a sequence                                                     *)
(*   dict   keyed by field names: a record; keyed by ids: a sequence of    *)
(*          <<key, value>> pairs in insertion order                        *)
(*   object a record with the extra field class ("Book" or "Borrower")     *)
(* A JSON document holds the value json.dump was given; json.load returns  *)
(* that value: dicts of dicts, never objects.                              *)
(***************************************************************************)
EXTENDS Integers, Sequences, FiniteSets, TLC

(***************************************************************************)
(* Bounds of the model                                                     *)
(***************************************************************************)
MaxBooks == 4
MaxBorrowers == 2

(***************************************************************************)
(* Characters and strings                                                  *)
(***************************************************************************)
DigitChars == <<"0", "1", "2", "3", "4", "5", "6", "7", "8", "9">>
UpperChars == <<"A", "B", "C", "D", "E", "F", "G", "H", "I", "J", "K", "L", "M",
                "N", "O", "P", "Q", "R", "S", "T", "U", "V", "W", "X", "Y", "Z">>
LowerChars == <<"a", "b", "c", "d", "e", "f", "g", "h", "i", "j", "k", "l", "m",
                "n", "o", "p", "q", "r", "s", "t", "u", "v", "w", "x", "y", "z">>

IndexIn(seq, c) == CHOOSE i \in 1..Len(seq) : seq[i] = c
IsIn(seq, c) == \E i \in 1..Len(seq) : seq[i] = c

OtherChars == <<" ", "-", ".", "@", "_">>
OtherCodes == <<32, 45, 46, 64, 95>>
Chars == {DigitChars[i] : i \in 1..10} \cup {UpperChars[i] : i \in 1..26}
             \cup {LowerChars[i] : i \in 1..26} \cup {OtherChars[i] : i \in 1..5}

\* code point of a character (the order list.sort uses on str)
Ord == [c \in Chars |->
          IF IsIn(DigitChars, c) THEN 47 + IndexIn(DigitChars, c)
          ELSE IF IsIn(UpperChars, c) THEN 64 + IndexIn(UpperChars, c)
          ELSE IF IsIn(LowerChars, c) THEN 96 + IndexIn(LowerChars, c)
          ELSE OtherCodes[IndexIn(OtherChars, c)]]

\* str.lower(), character by character
LowerChar == [c \in Chars |->
                IF IsIn(UpperChars, c) THEN LowerChars[IndexIn(UpperChars, c)] ELSE c]
lower(s) == [i \in 1..Len(s) |-> LowerChar[s[i]]]

\* s1 < s2 as Python compares str
StrLess(s1, s2) ==
    \/ \E i \in 1..Len(s1) :
          /\ i <= Len(s2)
          /\ \A j \in 1..(i - 1) : s1[j] = s2[j]
          /\ Ord[s1[i]] < Ord[s2[i]]
    \/ /\ Len(s1) < Len(s2)
       /\ \A j \in 1..Len(s1) : s1[j] = s2[j]

\* int(s) for a str of decimal digits
RECURSIVE int(_)
int(s) == IF s = <<>> THEN 0
          ELSE 10 * int(SubSeq(s, 1, Len(s) - 1)) + (Ord[s[Len(s)]] - 48)

\* f"{n}" for n >= 0
RECURSIVE Decimal(_)
Decimal(n) == IF n < 10 THEN <<DigitChars[n + 1]>>
              ELSE Decimal(n \div 10) \o <<DigitChars[(n % 10) + 1]>>

\* f"{n:04d}": zero-padded to a width of at least four
Format04d(n) ==
    LET d == Decimal(n)
    IN  IF Len(d) >= 4 THEN d ELSE [i \in 1..(4 - Len(d)) |-> "0"] \o d

\* s[-4:]
Last4(s) == IF Len(s) <= 4 THEN s ELSE SubSeq(s, Len(s) - 3, Len(s))

(***************************************************************************)
(* Insertion-ordered dict keyed by ids                                     *)
(***************************************************************************)
Keys(d) == [i \in 1..Len(d) |-> d[i][1]]
Values(d) == [i \in 1..Len(d) |-> d[i][2]]
HasKey(d, k) == \E i \in 1..Len(d) : d[i][1] = k
Get(d, k) == d[CHOOSE i \in 1..Len(d) : d[i][1] = k][2]
\* d[k] = v : replaces the value in place when k is present, else appends
Put(d, k, v) ==
    IF HasKey(d, k)
    THEN [i \in 1..Len(d) |-> IF d[i][1] = k THEN <<k, v>> ELSE d[i]]
    ELSE Append(d, <<k, v>>)

(***************************************************************************)
(* PART 1: helper functions                                                *)
(***************************************************************************)
\* mutant: generate_id without the sort
sort_nothing(existing_ids) == existing_ids

\* existing_ids.sort()
sort(existing_ids) == SortSeq(existing_ids, StrLess)

\* mutant: generate_id without the increment
generate_id_no_increment(prefix, existing_ids) ==
    LET sorted == sort(existing_ids)
        new_id == IF sorted = <<>> THEN 1
                  ELSE int(Last4(sorted[Len(sorted)]))
    IN  prefix \o <<"_">> \o Format04d(new_id)

generate_id(prefix, existing_ids) ==
    LET sorted == sort(existing_ids)
        new_id == IF sorted = <<>> THEN 1
                  ELSE int(Last4(sorted[Len(sorted)])) + 1
    IN  prefix \o <<"_">> \o Format04d(new_id)

BOOK == <<"B", "O", "O", "K">>
USER == <<"U", "S", "E", "R">>

(***************************************************************************)
(* Outcome of a call                                                       *)
(***************************************************************************)
Return(v) == [kind |-> "return", value |-> v]
Raise(e) == [kind |-> "raise", exc |-> e]
Killed == [kind |-> "killed"]
None == [none |-> TRUE]

(***************************************************************************)
(* PART 2: Book                                                            *)
(***************************************************************************)
Fiction == <<"F", "i", "c", "t", "i", "o", "n">>
NonFiction == <<"N", "o", "n", "-", "F", "i", "c", "t", "i", "o", "n">>
Science == <<"S", "c", "i", "e", "n", "c", "e">>
History == <<"H", "i", "s", "t", "o", "r", "y">>
Technology == <<"T", "e", "c", "h", "n", "o", "l", "o", "g", "y">>
GENRES == <<Fiction, NonFiction, Science, History, Technology>>

IsObject(x, cls) == "class" \in DOMAIN x /\ x.class = cls

\* mutant: Book() without the genre check
Book_init_unchecked(book_id, title, author, genre, available) ==
    [class |-> "Book", book_id |-> book_id, title |-> title,
     author |-> author, genre |-> genre, available |-> available]

\* mutant: Book() comparing genres without regard to case
Book_init_ignoring_case(book_id, title, author, genre, available) ==
    IF \E i \in 1..Len(GENRES) : lower(GENRES[i]) = lower(genre)
    THEN [class |-> "Book", book_id |-> book_id, title |-> title,
          author |-> author, genre |-> genre, available |-> available]
    ELSE Raise("ValueError")

\* Book(book_id, title, author, genre, available): the object, or ValueError
Book_init(book_id, title, author, genre, available) ==
    IF IsIn(GENRES, genre)
    THEN [class |-> "Book", book_id |-> book_id, title |-> title,
          author |-> author, genre |-> genre, available |-> available]
    ELSE Raise("ValueError")

Book_to_dict(self) ==
    [book_id |-> self.book_id, title |-> self.title, author |-> self.author,
     genre |-> self.genre, available |-> self.available]

\* mutant: from_dict that leaves available at its default
Book_from_dict_default_available(data) ==
    Book_init(data.book_id, data.title, data.author, data.genre, TRUE)

Book_from_dict(data) ==
    Book_init(data.book_id, data.title, data.author, data.genre, data.available)

(***************************************************************************)
(* PART 3: Borrower                                                        *)
(***************************************************************************)
MAX_BOOKS == 3

Borrower_init(borrower_id, name, email, borrowed_books) ==
    [class |-> "Borrower", borrower_id |-> borrower_id, name |-> name,
     email |-> email, borrowed_books |-> borrowed_books]

\* mutant: can_borrow with <= for <
can_borrow_off_by_one(self) == Len(self.borrowed_books) <= MAX_BOOKS

can_borrow(self) == Len(self.borrowed_books) < MAX_BOOKS

\* mutant: borrow_book that appends nothing
borrow_book_no_append(self, book_id) == self

\* the borrower after self.borrow_book(book_id)
borrow_book(self, book_id) ==
    IF can_borrow(self)
    THEN [self EXCEPT !.borrowed_books = Append(@, book_id)]
    ELSE self

\* list.remove(x): drops the first occurrence of x
remove(list, x) ==
    LET i == CHOOSE j \in 1..Len(list) :
                 list[j] = x /\ \A k \in 1..(j - 1) : list[k] # x
    IN  SubSeq(list, 1, i - 1) \o SubSeq(list, i + 1, Len(list))

\* mutant: return_book that drops the first entry of the list
Borrower_return_book_first_entry(self, book_id) ==
    IF IsIn(self.borrowed_books, book_id)
    THEN [self EXCEPT !.borrowed_books = Tail(@)]
    ELSE self

\* the borrower after self.return_book(book_id)
Borrower_return_book(self, book_id) ==
    IF IsIn(self.borrowed_books, book_id)
    THEN [self EXCEPT !.borrowed_books = remove(@, book_id)]
    ELSE self

Borrower_to_dict(self) ==
    [borrower_id |-> self.borrower_id, name |-> self.name, email |-> self.email,
     borrowed_books |-> self.borrowed_books]

Borrower_from_dict(data) ==
    Borrower_init(data.borrower_id, data.name, data.email, data.borrowed_books)

(***************************************************************************)
(* search_items (PART 1), over dicts built by to_dict                      *)
(***************************************************************************)
\* the keys of a to_dict() dict whose values are str; the values under the
\* other keys (available: bool, borrowed_books: list) have no lower()
StrFields == {"book_id", "title", "author", "genre", "borrower_id", "name", "email"}

\* line 83, for one item and one criterion: "raise", TRUE (no match) or FALSE
Mismatch(item, key, value) ==
    IF key \notin DOMAIN item THEN TRUE
    ELSE IF key \notin StrFields THEN "raise"
    ELSE lower(item[key]) # lower(value)

\* criteria: a record, field name |-> value
search_items(items, criteria) ==
    IF \E i \in 1..Len(items) : \E key \in DOMAIN criteria :
          key \in DOMAIN items[i] /\ key \notin StrFields
    THEN Raise("AttributeError")
    ELSE LET match(item) == \A key \in DOMAIN criteria :
                                ~Mismatch(item, key, criteria[key])
         IN  Return(SelectSeq(items, match))

(***************************************************************************)
(* PART 4: Library                                                         *)
(***************************************************************************)
VARIABLES
    books,           \* self.books: book_id -> Book (or dict, after load)
    borrowers,       \* self.borrowers: borrower_id -> Borrower (or dict)
    books_file,      \* library_books.json
    borrowers_file,  \* library_borrowers.json
    alive,           \* the process holding the Library object is running
    call,            \* the last call: [op, args]
    ret,             \* its outcome: Return(value), Raise(exc) or Killed
    n_added,         \* add_book / add_borrower calls that returned, on this Library
    before,          \* memory and documents before the last checkout_book that
                     \* returned True, while it is the last call or the last call
                     \* is the return_book of the same pair after it; else <<>>
    existing_ids,    \* the list object a caller passed to generate_id
    todos,           \* TodoList.todos (files.py)
    todos_file,      \* the JSON file at TodoList.filepath
    n_todos_added    \* add calls of TodoList: on every object, on this object

vars == <<books, borrowers, books_file, borrowers_file, alive, call, ret, n_added,
          before, existing_ids, todos, todos_file, n_todos_added>>
todo_vars == <<todos, todos_file, n_todos_added>>
memory == <<books, borrowers>>
files == <<books_file, borrowers_file>>

Absent == [exists |-> FALSE]
Document(data) == [exists |-> TRUE, data |-> data]

\* inputs of the calls
Dune == <<"D", "u", "n", "e">>
Herbert == <<"H", "e", "r", "b", "e", "r", "t">>
Poetry == <<"P", "o", "e", "t", "r", "y">>
Alice == <<"A", "l", "i", "c", "e">>
Email == <<"a", "@", "x", ".", "c", "o", "m">>
Titles == {Dune}
Authors == {Herbert}
GenreInputs == {Science, lower(Science), Poetry}
Names == {Alice}
Emails == {Email}
BookIds == {BOOK \o <<"_">> \o Format04d(n) : n \in 1..MaxBooks}
BorrowerIds == {USER \o <<"_">> \o Format04d(n) : n \in 1..MaxBorrowers}
StopPoints == {"none", "between_writes"}

\* no TodoList has been constructed and its file does not exist
NoTodoList ==
    /\ todos = <<>>
    /\ todos_file = Absent
    /\ n_todos_added = [overall |-> 0, on_object |-> 0]

\* the state after Library(name, data_dir) on a directory without documents
Init ==
    /\ books = <<>>
    /\ borrowers = <<>>
    /\ books_file = Absent
    /\ borrowers_file = Absent
    /\ alive = TRUE
    /\ call = [op |-> "Library", args |-> <<>>]
    /\ ret = Return(None)
    /\ n_added = [book |-> 0, borrower |-> 0]
    /\ before = <<>>
    /\ existing_ids = <<>>
    /\ NoTodoList

\* mutant: load without the except FileNotFoundError clauses
load_uncaught(file) == IF file.exists THEN file.data ELSE Raise("FileNotFoundError")

\* json.load of a document, or the {} __init__ assigned when it is absent
load(file) == IF file.exists THEN file.data ELSE <<>>

\* Library.__init__ and load: a new Library on the same data directory
Library_init ==
    /\ books' = load(books_file)
    /\ borrowers' = load(borrowers_file)
    /\ alive' = TRUE
    /\ call' = [op |-> "Library", args |-> <<>>]
    /\ ret' = Return(None)
    /\ n_added' = [book |-> 0, borrower |-> 0]
    /\ before' = <<>>
    /\ UNCHANGED <<files, existing_ids, todo_vars>>

\* mutant: save that writes the books document only
save_books_only(bks, brs, stop) ==
    IF \E i \in 1..Len(bks) : ~IsObject(bks[i][2], "Book")
    THEN [books_file |-> books_file, borrowers_file |-> borrowers_file,
          outcome |-> Raise("AttributeError")]
    ELSE [books_file |-> Document([i \in 1..Len(bks) |->
                                      <<bks[i][1], Book_to_dict(bks[i][2])>>]),
          borrowers_file |-> borrowers_file,
          outcome |-> IF stop = "between_writes" THEN Killed ELSE Return(None)]

\* the documents after self.save() on collections bks and brs, and how save
\* ended; to_dict exists on objects only; stop = "between_writes": the process
\* is killed after the books document is written
save(bks, brs, stop) ==
    IF \E i \in 1..Len(bks) : ~IsObject(bks[i][2], "Book")
    THEN [books_file |-> books_file, borrowers_file |-> borrowers_file,
          outcome |-> Raise("AttributeError")]
    ELSE LET written == Document([i \in 1..Len(bks) |->
                                     <<bks[i][1], Book_to_dict(bks[i][2])>>])
         IN  IF stop = "between_writes"
             THEN [books_file |-> written, borrowers_file |-> borrowers_file,
                   outcome |-> Killed]
             ELSE IF \E i \in 1..Len(brs) : ~IsObject(brs[i][2], "Borrower")
             THEN [books_file |-> written, borrowers_file |-> borrowers_file,
                   outcome |-> Raise("AttributeError")]
             ELSE [books_file |-> written,
                   borrowers_file |-> Document([i \in 1..Len(brs) |->
                                        <<brs[i][1], Borrower_to_dict(brs[i][2])>>]),
                   outcome |-> Return(None)]

\* a call that ends without assigning anything and without reaching save
Ends(outcome, stop) ==
    /\ stop = "none"
    /\ ret' = outcome
    /\ UNCHANGED <<books, borrowers, books_file, borrowers_file, alive, n_added,
                   existing_ids, todo_vars>>

\* a call that has assigned bks and brs, then calls self.save() and returns value
SavesAndReturns(bks, brs, value, stop, counted) ==
    LET s == save(bks, brs, stop)
    IN  /\ books_file' = s.books_file
        /\ borrowers_file' = s.borrowers_file
        /\ UNCHANGED <<existing_ids, todo_vars>>
        /\ IF s.outcome = Killed
           THEN /\ alive' = FALSE
                /\ books' = <<>>
                /\ borrowers' = <<>>
                /\ ret' = Killed
                /\ n_added' = [book |-> 0, borrower |-> 0]
           ELSE /\ alive' = TRUE
                /\ books' = bks
                /\ borrowers' = brs
                /\ ret' = IF s.outcome = Return(None) THEN Return(value) ELSE s.outcome
                /\ n_added' = IF s.outcome = Return(None) /\ counted # "none"
                              THEN [n_added EXCEPT ![counted] = @ + 1]
                              ELSE n_added

add_book(title, author, genre, stop) ==
    /\ alive
    /\ IsIn(GENRES, genre) => Len(books) < MaxBooks
    /\ call' = [op |-> "add_book", args |-> <<title, author, genre>>]
    /\ LET new_book == Book_init(generate_id(BOOK, Keys(books)), title, author,
                                 genre, TRUE)
       IN  IF new_book = Raise("ValueError")
           THEN Ends(new_book, stop)
           ELSE SavesAndReturns(Put(books, new_book.book_id, new_book), borrowers,
                                new_book, stop, "book")
    /\ before' = <<>>

add_borrower(name, email, stop) ==
    /\ alive
    /\ Len(borrowers) < MaxBorrowers
    /\ call' = [op |-> "add_borrower", args |-> <<name, email>>]
    /\ LET new_borrower == Borrower_init(generate_id(USER, Keys(borrowers)), name,
                                         email, <<>>)
       IN  SavesAndReturns(books, Put(borrowers, new_borrower.borrower_id, new_borrower),
                           new_borrower, stop, "borrower")
    /\ before' = <<>>

checkout_book(book_id, borrower_id, stop) ==
    /\ alive
    /\ call' = [op |-> "checkout_book", args |-> <<book_id, borrower_id>>]
    /\ IF ~HasKey(books, book_id) THEN Ends(Return(FALSE), stop)
       ELSE IF ~IsObject(Get(books, book_id), "Book") THEN Ends(Raise("AttributeError"), stop)
       ELSE IF ~Get(books, book_id).available THEN Ends(Return(FALSE), stop)
       ELSE IF ~HasKey(borrowers, borrower_id) THEN Ends(Return(FALSE), stop)
       ELSE IF ~IsObject(Get(borrowers, borrower_id), "Borrower")
            THEN Ends(Raise("AttributeError"), stop)
       ELSE IF ~can_borrow(Get(borrowers, borrower_id)) THEN Ends(Return(FALSE), stop)
       ELSE SavesAndReturns(
                Put(books, book_id, [Get(books, book_id) EXCEPT !.available = FALSE]),
                Put(borrowers, borrower_id,
                    borrow_book(Get(borrowers, borrower_id), book_id)),
                TRUE, stop, "none")
    /\ before' = IF ret' = Return(TRUE)
                 THEN <<books, borrowers, books_file, borrowers_file>>
                 ELSE <<>>

return_book(book_id, borrower_id, stop) ==
    /\ alive
    /\ call' = [op |-> "return_book", args |-> <<book_id, borrower_id>>]
    /\ IF ~HasKey(books, book_id) \/ ~HasKey(borrowers, borrower_id)
       THEN Ends(Return(FALSE), stop)
       ELSE IF ~IsObject(Get(borrowers, borrower_id), "Borrower")
            THEN Ends(Raise("AttributeError"), stop)
       ELSE IF ~IsIn(Get(borrowers, borrower_id).borrowed_books, book_id)
            THEN Ends(Return(FALSE), stop)
       ELSE LET brs == Put(borrowers, borrower_id,
                           Borrower_return_book(Get(borrowers, borrower_id), book_id))
            IN  IF ~IsObject(Get(books, book_id), "Book")
                THEN /\ stop = "none"
                     /\ borrowers' = brs
                     /\ ret' = Raise("AttributeError")
                     /\ UNCHANGED <<books, books_file, borrowers_file, alive, n_added,
                                    existing_ids, todo_vars>>
                ELSE SavesAndReturns(
                         Put(books, book_id,
                             [Get(books, book_id) EXCEPT !.available = TRUE]),
                         brs, TRUE, stop, "none")
    /\ before' = IF /\ call.op = "checkout_book"
                    /\ call.args = <<book_id, borrower_id>>
                    /\ ret = Return(TRUE)
                    /\ ret' = Return(TRUE)
                 THEN before
                 ELSE <<>>

\* criteria of the search_books calls
CriteriaInputs ==
    << <<>>,
       [genre |-> lower(Science)],
       [title |-> <<"D", "U", "N", "E">>],
       [title |-> Dune, genre |-> History],
       [book_id |-> <<"b", "o", "o", "k", "_", "0", "0", "0", "1">>],
       [publisher |-> <<"A", "c", "e">>],
       [publisher |-> <<"A", "c", "e">>, genre |-> Science],
       [available |-> TRUE] >>

search_books(criteria) ==
    /\ alive
    /\ call' = [op |-> "search_books", args |-> <<criteria>>]
    /\ IF \E i \in 1..Len(books) : ~IsObject(books[i][2], "Book")
       THEN Ends(Raise("AttributeError"), "none")
       ELSE Ends(search_items([i \in 1..Len(books) |-> Book_to_dict(books[i][2])],
                              criteria), "none")
    /\ before' = <<>>

\* the list get_available_books builds, or the AttributeError of book.available
\* on a dict that load left in self.books
get_available_books_of(bks) ==
    IF \E i \in 1..Len(bks) : ~IsObject(bks[i][2], "Book")
    THEN Raise("AttributeError")
    ELSE Return(SelectSeq(Values(bks), LAMBDA book : book.available))

get_available_books ==
    /\ alive
    /\ call' = [op |-> "get_available_books", args |-> <<>>]
    /\ Ends(get_available_books_of(books), "none")
    /\ before' = <<>>

get_borrower_books(borrower_id) ==
    /\ alive
    /\ call' = [op |-> "get_borrower_books", args |-> <<borrower_id>>]
    /\ IF ~HasKey(borrowers, borrower_id) THEN Ends(Raise("KeyError"), "none")
       ELSE IF ~IsObject(Get(borrowers, borrower_id), "Borrower")
            THEN Ends(Raise("AttributeError"), "none")
       ELSE Ends(Return(Get(borrowers, borrower_id).borrowed_books), "none")
    /\ before' = <<>>

\* genre_counts after the loop over bks: genre -> count, in order of first occurrence
RECURSIVE genre_counts(_)
genre_counts(bks) ==
    IF bks = <<>> THEN <<>>
    ELSE LET counts == genre_counts(SubSeq(bks, 1, Len(bks) - 1))
             genre == bks[Len(bks)][2].genre
         IN  Put(counts, genre, (IF HasKey(counts, genre) THEN Get(counts, genre) ELSE 0) + 1)

get_statistics ==
    /\ alive
    /\ call' = [op |-> "get_statistics", args |-> <<>>]
    /\ LET total == Len(books)
           available == get_available_books_of(books)
       IN  IF available = Raise("AttributeError")
           THEN Ends(available, "none")
           ELSE Ends(Return([total_books |-> total,
                             available_books |-> Len(available.value),
                             checked_out |-> total - Len(available.value),
                             total_borrowers |-> Len(borrowers),
                             books_by_genre |-> genre_counts(books)]), "none")
    /\ before' = <<>>

Next ==
    \/ Library_init
    \/ \E title \in Titles, author \in Authors, genre \in GenreInputs, stop \in StopPoints :
          add_book(title, author, genre, stop)
    \/ \E name \in Names, email \in Emails, stop \in StopPoints :
          add_borrower(name, email, stop)
    \/ \E book_id \in BookIds, borrower_id \in BorrowerIds, stop \in StopPoints :
          checkout_book(book_id, borrower_id, stop)
    \/ \E book_id \in BookIds, borrower_id \in BorrowerIds, stop \in StopPoints :
          return_book(book_id, borrower_id, stop)
    \/ \E i \in 1..Len(CriteriaInputs) : search_books(CriteriaInputs[i])
    \/ get_available_books
    \/ \E borrower_id \in BorrowerIds : get_borrower_books(borrower_id)
    \/ get_statistics

Spec == Init /\ [][Next]_vars

\* one Library object from a directory without documents, never killed
NextFresh ==
    \/ \E title \in Titles, author \in Authors, genre \in GenreInputs :
          add_book(title, author, genre, "none")
    \/ \E name \in Names, email \in Emails : add_borrower(name, email, "none")
    \/ \E book_id \in BookIds, borrower_id \in BorrowerIds :
          checkout_book(book_id, borrower_id, "none")
    \/ \E book_id \in BookIds, borrower_id \in BorrowerIds :
          return_book(book_id, borrower_id, "none")
    \/ \E i \in 1..Len(CriteriaInputs) : search_books(CriteriaInputs[i])
    \/ get_available_books
    \/ \E borrower_id \in BorrowerIds : get_borrower_books(borrower_id)
    \/ get_statistics

SpecFresh == Init /\ [][NextFresh]_vars

(***************************************************************************)
(* Properties                                                              *)
(***************************************************************************)
\* the borrowers (positions in self.borrowers) whose borrowed_books holds book_id
Holders(book_id) ==
    {j \in 1..Len(borrowers) : IsIn(borrowers[j][2].borrowed_books, book_id)}

\* C1: on a Library started without documents, after any add_book, add_borrower,
\* checkout_book and return_book calls, a book is unavailable iff exactly one
\* borrower's borrowed_books holds its id, and available iff no borrower's does
C1_AvailabilityMatchesBorrowers ==
    \A i \in 1..Len(books) :
        /\ (books[i][2].available = FALSE) <=> (Cardinality(Holders(books[i][1])) = 1)
        /\ (books[i][2].available = TRUE) <=> (Holders(books[i][1]) = {})

\* a return_book has succeeded while another book is still held
C1_Witness ==
    /\ call.op = "return_book"
    /\ ret = Return(TRUE)
    /\ \E i \in 1..Len(books) :
          books[i][2].available = FALSE /\ Cardinality(Holders(books[i][1])) = 1
    /\ \E i \in 1..Len(books) :
          books[i][2].available = TRUE /\ books[i][1] = call.args[1]

\* no id twice in a list
NoDuplicates(list) ==
    \A i, j \in 1..Len(list) : list[i] = list[j] => i = j

\* C2: on a Library started without documents, every borrowed_books list has at
\* most 3 entries and no id twice, and checkout_book for a borrower who holds
\* 3 books returns False and changes no book and no borrower
C2_AtMostThreeBooks ==
    /\ [](\A j \in 1..Len(borrowers) :
             /\ Len(borrowers[j][2].borrowed_books) <= 3
             /\ NoDuplicates(borrowers[j][2].borrowed_books))
    /\ [][(/\ call'.op = "checkout_book"
           /\ HasKey(borrowers, call'.args[2])
           /\ Len(Get(borrowers, call'.args[2]).borrowed_books) = 3)
          => (ret' = Return(FALSE) /\ UNCHANGED memory)]_vars

\* a borrower holding 3 books was refused an available book
C2_Witness ==
    /\ call.op = "checkout_book"
    /\ ret = Return(FALSE)
    /\ HasKey(borrowers, call.args[2])
    /\ Len(Get(borrowers, call.args[2]).borrowed_books) = 3
    /\ HasKey(books, call.args[1])
    /\ Get(books, call.args[1]).available

\* the call of this step returned or raised (the process was not killed in it)
Completed(op) == call'.op = op /\ ret' # Killed

\* C3: checkout_book returns False and changes nothing exactly when the book
\* is unknown or unavailable or the borrower is unknown or holds 3 books;
\* otherwise it returns True, appends the id to that borrower's list, makes
\* that book unavailable and changes nothing else
C3_CheckoutContract ==
    [][Completed("checkout_book") =>
        LET book_id == call'.args[1]
            borrower_id == call'.args[2]
            refused == \/ ~HasKey(books, book_id)
                       \/ ~Get(books, book_id).available
                       \/ ~HasKey(borrowers, borrower_id)
                       \/ Len(Get(borrowers, borrower_id).borrowed_books) >= 3
        IN  IF refused
            THEN ret' = Return(FALSE) /\ UNCHANGED memory
            ELSE /\ ret' = Return(TRUE)
                 /\ Len(books') = Len(books)
                 /\ Len(borrowers') = Len(borrowers)
                 /\ \A i \in 1..Len(books) :
                       books'[i] = IF books[i][1] = book_id
                                   THEN <<book_id, [books[i][2] EXCEPT !.available = FALSE]>>
                                   ELSE books[i]
                 /\ \A j \in 1..Len(borrowers) :
                       borrowers'[j] =
                           IF borrowers[j][1] = borrower_id
                           THEN <<borrower_id,
                                  [borrowers[j][2] EXCEPT
                                      !.borrowed_books = Append(@, book_id)]>>
                           ELSE borrowers[j]]_vars

\* C4: return_book returns False and changes no book and no borrower when the
\* book id is not in that borrower's borrowed_books (also when another
\* borrower holds the book) or when either id is unknown
C4_ReturnRefused ==
    [][(/\ Completed("return_book")
        /\ \/ ~HasKey(books, call'.args[1])
           \/ ~HasKey(borrowers, call'.args[2])
           \/ ~IsIn(Get(borrowers, call'.args[2]).borrowed_books, call'.args[1]))
       => (ret' = Return(FALSE) /\ UNCHANGED memory)]_vars

\* the documents hold exactly the serialized form of the collections bks, brs
Persisted(bks, brs, bfile, brfile) ==
    /\ bfile.exists
    /\ brfile.exists
    /\ Len(bfile.data) = Len(bks)
    /\ Len(brfile.data) = Len(brs)
    /\ \A i \in 1..Len(bks) :
          bfile.data[i] =
              <<bks[i][1],
                [book_id |-> bks[i][2].book_id, title |-> bks[i][2].title,
                 author |-> bks[i][2].author, genre |-> bks[i][2].genre,
                 available |-> bks[i][2].available]>>
    /\ \A j \in 1..Len(brs) :
          brfile.data[j] =
              <<brs[j][1],
                [borrower_id |-> brs[j][2].borrower_id, name |-> brs[j][2].name,
                 email |-> brs[j][2].email,
                 borrowed_books |-> brs[j][2].borrowed_books]>>

AllObjects ==
    /\ \A i \in 1..Len(books) : IsObject(books[i][2], "Book")
    /\ \A j \in 1..Len(borrowers) : IsObject(borrowers[j][2], "Borrower")

\* C5: a new Library on the data directory of a Library whose operations all
\* succeeded holds collections equal to the original's, as Book and Borrower
\* objects
C5_ReloadEqualsOriginal ==
    [][(/\ call'.op = "Library"
        /\ alive
        /\ AllObjects
        /\ Persisted(books, borrowers, books_file, borrowers_file))
       => (books' = books /\ borrowers' = borrowers)]_vars

\* the call of this step is a mutating operation that returned normally
Succeeded ==
    \/ call'.op \in {"add_book", "add_borrower"} /\ ret'.kind = "return"
    \/ call'.op \in {"checkout_book", "return_book"} /\ ret' = Return(TRUE)

\* the call of this step is a mutating operation that failed
Failed ==
    \/ call'.op \in {"checkout_book", "return_book"} /\ ret' = Return(FALSE)
    \/ call'.op = "add_book" /\ ret' = Raise("ValueError")

\* C6: when add_book, add_borrower, checkout_book or return_book succeeds, both
\* documents equal the serialized form of the collections now in memory; when
\* one fails, neither document is written
C6_PersistedOnSuccessOnly ==
    [][/\ Succeeded => Persisted(books', borrowers', books_file', borrowers_file')
       /\ Failed => UNCHANGED files]_vars

\* a checkout_book has succeeded and both documents show it
C6_Witness ==
    /\ call.op = "checkout_book"
    /\ ret = Return(TRUE)
    /\ Persisted(books, borrowers, books_file, borrowers_file)
    /\ \E i \in 1..Len(books_file.data) :
          /\ books_file.data[i][1] = call.args[1]
          /\ ~books_file.data[i][2].available
    /\ \E j \in 1..Len(borrowers_file.data) :
          /\ borrowers_file.data[j][1] = call.args[2]
          /\ IsIn(borrowers_file.data[j][2].borrowed_books, call.args[1])

\* prefix_000n, for n < 10
IdNumbered(prefix, n) == prefix \o <<"_", "0", "0", "0", DigitChars[n + 1]>>

\* C7: on a Library started without documents, the n-th add_book that returns
\* returns an available Book with id BOOK_ and n in 4 digits, an id no book
\* had, and overwrites no book; likewise add_borrower with USER_ and an empty
\* borrowed_books, the two numbered independently
C7_FreshSequentialIds ==
    [][/\ (call'.op = "add_book" /\ ret'.kind = "return") =>
            /\ IsObject(ret'.value, "Book")
            /\ ret'.value.available = TRUE
            /\ ret'.value.book_id = IdNumbered(BOOK, n_added'.book)
            /\ ~HasKey(books, ret'.value.book_id)
            /\ books' = Append(books, <<ret'.value.book_id, ret'.value>>)
            /\ UNCHANGED borrowers
       /\ (call'.op = "add_borrower" /\ ret'.kind = "return") =>
            /\ IsObject(ret'.value, "Borrower")
            /\ ret'.value.borrowed_books = <<>>
            /\ ret'.value.borrower_id = IdNumbered(USER, n_added'.borrower)
            /\ ~HasKey(borrowers, ret'.value.borrower_id)
            /\ borrowers' = Append(borrowers, <<ret'.value.borrower_id, ret'.value>>)
            /\ UNCHANGED books]_vars

\* the third book was added to a Library that has two borrowers
C7_Witness ==
    /\ call.op = "add_book"
    /\ ret.kind = "return"
    /\ ret.value.book_id = IdNumbered(BOOK, 3)
    /\ n_added = [book |-> 3, borrower |-> 2]
    /\ HasKey(borrowers, IdNumbered(USER, 2))

ValidGenres == {Fiction, NonFiction, Science, History, Technology}

\* C8: add_book with a genre outside the five raises, inserts nothing, changes
\* no book, borrower or document and consumes no id: the add_book that follows
\* it with a valid genre gets the id numbered one past the add_book calls that
\* returned
C8_InvalidGenreChangesNothing ==
    [][/\ (call'.op = "add_book" /\ call'.args[3] \notin ValidGenres) =>
            /\ ret' = Raise("ValueError")
            /\ UNCHANGED <<books, borrowers, books_file, borrowers_file, n_added>>
       /\ (/\ call.op = "add_book"
           /\ ret = Raise("ValueError")
           /\ call'.op = "add_book"
           /\ ret'.kind = "return") =>
            /\ n_added'.book = n_added.book + 1
            /\ ret'.value.book_id = IdNumbered(BOOK, n_added'.book)]_vars

\* add_book was refused for the genre "science" on a Library that holds a book
C8_Witness ==
    /\ call.op = "add_book"
    /\ call.args[3] = <<"s", "c", "i", "e", "n", "c", "e">>
    /\ ret = Raise("ValueError")
    /\ Len(books) = 1
    /\ Persisted(books, borrowers, books_file, borrowers_file)

\* the serialized books that match every criterion, lower-cased on both sides
Matching(criteria) ==
    SelectSeq([i \in 1..Len(books) |->
                  [book_id |-> books[i][2].book_id, title |-> books[i][2].title,
                   author |-> books[i][2].author, genre |-> books[i][2].genre,
                   available |-> books[i][2].available]],
              LAMBDA item : \A key \in DOMAIN criteria :
                  /\ key \in DOMAIN item
                  /\ lower(item[key]) = lower(criteria[key]))

\* C9: search_books returns exactly the books whose serialized form has, for
\* every criterion key, a value equal to the criterion's after lower-casing
\* both; a key the serialized form lacks excludes the book and never raises;
\* without criteria every book is returned (criteria on str values)
C9_SearchCaseInsensitive ==
    [][(call'.op = "search_books" /\ "available" \notin DOMAIN call'.args[1])
       => ret' = Return(Matching(call'.args[1]))]_vars

\* C10: constructing a Library raises nothing, and a collection whose document
\* is absent starts empty whether or not the other document is present
C10_AbsentDocumentStartsEmpty ==
    [][call'.op = "Library" =>
        /\ ret' = Return(None)
        /\ ~books_file.exists => books' = <<>>
        /\ ~borrowers_file.exists => borrowers' = <<>>
        /\ books_file.exists => books' = books_file.data
        /\ borrowers_file.exists => borrowers' = borrowers_file.data]_vars

\* a Library was constructed with the books document present and the
\* borrowers document absent
C10_Witness ==
    /\ call.op = "Library"
    /\ ret = Return(None)
    /\ books_file.exists
    /\ ~borrowers_file.exists
    /\ books # <<>>
    /\ borrowers = <<>>

(***************************************************************************)
(* Queries                                                                 *)
(***************************************************************************)
RECURSIVE Sum(_)
Sum(numbers) == IF numbers = <<>> THEN 0
                ELSE numbers[1] + Sum(SubSeq(numbers, 2, Len(numbers)))

Unchanged == UNCHANGED <<books, borrowers, books_file, borrowers_file>>

\* C11: get_statistics returns total_books = the number of books,
\* available_books = the number of available books, checked_out = their
\* difference = the number of entries in all borrowed_books lists,
\* total_borrowers = the number of borrowers, and books_by_genre with exactly
\* the genres of the books, positive counts that sum to total_books; the call
\* changes neither memory nor documents.
C11_StatisticsContract ==
    [][call'.op = "get_statistics" =>
          /\ ret'.kind = "return"
          /\ LET stats == ret'.value
                 by_genre == stats.books_by_genre
             IN  /\ stats.total_books = Len(books)
                 /\ stats.available_books =
                       Cardinality({i \in 1..Len(books) : books[i][2].available})
                 /\ stats.checked_out = stats.total_books - stats.available_books
                 /\ stats.checked_out =
                       Sum([i \in 1..Len(borrowers) |->
                               Len(borrowers[i][2].borrowed_books)])
                 /\ stats.total_borrowers = Len(borrowers)
                 /\ {by_genre[i][1] : i \in 1..Len(by_genre)} =
                       {books[i][2].genre : i \in 1..Len(books)}
                 /\ \A i, j \in 1..Len(by_genre) :
                       by_genre[i][1] = by_genre[j][1] => i = j
                 /\ \A i \in 1..Len(by_genre) :
                       by_genre[i][2] =
                          Cardinality({k \in 1..Len(books) :
                                         books[k][2].genre = by_genre[i][1]})
                 /\ \A i \in 1..Len(by_genre) : by_genre[i][2] > 0
                 /\ Sum(Values(by_genre)) = stats.total_books
          /\ Unchanged]_vars

\* C12: get_borrower_books(borrower_id) returns the borrowed_books list of a
\* known borrower and raises KeyError for an unknown one; in both cases
\* memory and documents are unchanged.
C12_BorrowerBooksContract ==
    [][call'.op = "get_borrower_books" =>
          /\ IF HasKey(borrowers, call'.args[1])
             THEN ret' = Return(Get(borrowers, call'.args[1]).borrowed_books)
             ELSE ret' = Raise("KeyError")
          /\ Unchanged]_vars

(***************************************************************************)
(* The Book and Borrower classes called on their own                       *)
(***************************************************************************)
EntityGenres == ValidGenres \cup {lower(Science), Poetry, <<>>}
BorrowedLists == UNION {[1..n -> BookIds] : n \in 0..MAX_BOOKS}

\* the objects the constructors build from the inputs
BookObjects ==
    {Book_init(book_id, title, author, genre, available) :
        book_id \in BookIds, title \in Titles, author \in Authors,
        genre \in ValidGenres, available \in BOOLEAN}
BorrowerObjects ==
    {Borrower_init(borrower_id, name, email, borrowed_books) :
        borrower_id \in BorrowerIds, name \in Names, email \in Emails,
        borrowed_books \in BorrowedLists}

\* the dicts from_dict is given: any genre
BookDicts ==
    {[book_id |-> book_id, title |-> title, author |-> author, genre |-> genre,
      available |-> available] :
        book_id \in BookIds, title \in Titles, author \in Authors,
        genre \in EntityGenres, available \in BOOLEAN}
BorrowerDicts == {Borrower_to_dict(borrower) : borrower \in BorrowerObjects}

\* the outcome of a constructor call
Constructed(object) == IF object = Raise("ValueError") THEN object ELSE Return(object)

LibraryUntouched ==
    UNCHANGED <<books, borrowers, books_file, borrowers_file, alive, n_added,
                before, existing_ids, todo_vars>>

new_Book(book_id, title, author, genre, available) ==
    /\ call' = [op |-> "Book", args |-> <<book_id, title, author, genre, available>>]
    /\ ret' = Constructed(Book_init(book_id, title, author, genre, available))
    /\ LibraryUntouched

call_Book_to_dict(self) ==
    /\ call' = [op |-> "Book.to_dict", args |-> <<self>>]
    /\ ret' = Return(Book_to_dict(self))
    /\ LibraryUntouched

call_Book_from_dict(data) ==
    /\ call' = [op |-> "Book.from_dict", args |-> <<data>>]
    /\ ret' = Constructed(Book_from_dict(data))
    /\ LibraryUntouched

call_Borrower_to_dict(self) ==
    /\ call' = [op |-> "Borrower.to_dict", args |-> <<self>>]
    /\ ret' = Return(Borrower_to_dict(self))
    /\ LibraryUntouched

call_Borrower_from_dict(data) ==
    /\ call' = [op |-> "Borrower.from_dict", args |-> <<data>>]
    /\ ret' = Return(Borrower_from_dict(data))
    /\ LibraryUntouched

NextEntities ==
    \/ \E book_id \in BookIds, title \in Titles, author \in Authors,
          genre \in EntityGenres, available \in BOOLEAN :
          new_Book(book_id, title, author, genre, available)
    \/ \E self \in BookObjects : call_Book_to_dict(self)
    \/ \E data \in BookDicts : call_Book_from_dict(data)
    \/ \E self \in BorrowerObjects : call_Borrower_to_dict(self)
    \/ \E data \in BorrowerDicts : call_Borrower_from_dict(data)

SpecEntities == Init /\ [][NextEntities]_vars

\* C13: from_dict applied to the dict to_dict returned gives an object with
\* the same field values as the object to_dict was called on, for every Book
\* and every Borrower, an empty borrowed_books list included.
C13_RoundTrip ==
    [][/\ (call.op = "Book.to_dict" /\ call'.op = "Book.from_dict"
              /\ call'.args[1] = ret.value) =>
             /\ ret'.kind = "return"
             /\ IsObject(ret'.value, "Book")
             /\ ret'.value.book_id = call.args[1].book_id
             /\ ret'.value.title = call.args[1].title
             /\ ret'.value.author = call.args[1].author
             /\ ret'.value.genre = call.args[1].genre
             /\ ret'.value.available = call.args[1].available
       /\ (call.op = "Borrower.to_dict" /\ call'.op = "Borrower.from_dict"
              /\ call'.args[1] = ret.value) =>
             /\ ret'.kind = "return"
             /\ IsObject(ret'.value, "Borrower")
             /\ ret'.value.borrower_id = call.args[1].borrower_id
             /\ ret'.value.name = call.args[1].name
             /\ ret'.value.email = call.args[1].email
             /\ ret'.value.borrowed_books = call.args[1].borrowed_books]_vars

\* Borrower.from_dict has returned a borrower without books whose to_dict is
\* the dict it was given
C13_Witness ==
    /\ call.op = "Borrower.from_dict"
    /\ ret.kind = "return"
    /\ ret.value.borrowed_books = <<>>
    /\ Borrower_to_dict(ret.value) = call.args[1]

\* C14: Book(...) and Book.from_dict(...) return a Book exactly when the genre
\* is one of Fiction, Non-Fiction, Science, History, Technology, compared
\* case-sensitively; for every other genre they raise ValueError and return
\* no object.
C14_GenreValidated ==
    [][/\ call'.op = "Book" =>
             IF call'.args[4] \in ValidGenres
             THEN /\ ret'.kind = "return"
                  /\ IsObject(ret'.value, "Book")
                  /\ ret'.value.genre = call'.args[4]
             ELSE ret' = Raise("ValueError")
       /\ call'.op = "Book.from_dict" =>
             IF call'.args[1].genre \in ValidGenres
             THEN /\ ret'.kind = "return"
                  /\ IsObject(ret'.value, "Book")
                  /\ ret'.value.genre = call'.args[1].genre
             ELSE ret' = Raise("ValueError")]_vars

\* Book.from_dict was given the genre "science" and raised
C14_Witness ==
    /\ call.op = "Book.from_dict"
    /\ call.args[1].genre = lower(Science)
    /\ ret = Raise("ValueError")

(***************************************************************************)
(* generate_id called on its own, on a list the caller keeps               *)
(***************************************************************************)
MaxIds == 3
IdNumbers == {1, 2, 10, 999, 9998}
Prefixes == {BOOK, USER}
IdsOf(prefix) == {prefix \o <<"_">> \o Format04d(n) : n \in IdNumbers}
\* lists of ids that share a prefix, in any order
IdLists == UNION {[1..n -> IdsOf(prefix)] : n \in 0..MaxIds, prefix \in Prefixes}

InitGenerateId ==
    /\ existing_ids \in IdLists
    /\ NoTodoList
    /\ books = <<>>
    /\ borrowers = <<>>
    /\ books_file = Absent
    /\ borrowers_file = Absent
    /\ alive = TRUE
    /\ call = [op |-> "Library", args |-> <<>>]
    /\ ret = Return(None)
    /\ n_added = [book |-> 0, borrower |-> 0]
    /\ before = <<>>

\* generate_id(prefix, existing_ids): line 53 sorts the caller's list in place
call_generate_id(prefix) ==
    /\ call' = [op |-> "generate_id", args |-> <<prefix, existing_ids>>]
    /\ existing_ids' = sort(existing_ids)
    /\ ret' = Return(generate_id(prefix, existing_ids))
    /\ UNCHANGED <<books, borrowers, books_file, borrowers_file, alive, n_added, before,
                   todo_vars>>

NextGenerateId == \E prefix \in Prefixes : call_generate_id(prefix)

SpecGenerateId == InitGenerateId /\ [][NextGenerateId]_vars

\* the number written by the last four characters of id
Suffix(id) ==
    LET digit(k) == IndexIn(DigitChars, id[Len(id) - 4 + k]) - 1
    IN  1000 * digit(1) + 100 * digit(2) + 10 * digit(3) + digit(4)
Highest(ids) ==
    IF ids = <<>> THEN 0
    ELSE CHOOSE n \in {Suffix(ids[i]) : i \in 1..Len(ids)} :
            \A i \in 1..Len(ids) : Suffix(ids[i]) <= n
FourDigits(n) ==
    <<DigitChars[((n \div 1000) % 10) + 1], DigitChars[((n \div 100) % 10) + 1],
      DigitChars[((n \div 10) % 10) + 1], DigitChars[(n % 10) + 1]>>
SharePrefix(prefix, ids) ==
    \A i \in 1..Len(ids) :
       /\ Len(ids[i]) = Len(prefix) + 5
       /\ SubSeq(ids[i], 1, Len(prefix) + 1) = prefix \o <<"_">>

\* C15: for a list of ids, in any order and with gaps, that share the prefix
\* and end in four digits whose highest is below 9999, generate_id returns
\* prefix_ followed by the highest suffix plus one in four digits (0001 for
\* the empty list), and the result is not an element of the list.
C15_NextAfterHighest ==
    [][(/\ call'.op = "generate_id"
        /\ SharePrefix(call'.args[1], call'.args[2])
        /\ Highest(call'.args[2]) < 9999) =>
          /\ ret' = Return(call'.args[1] \o <<"_">>
                              \o FourDigits(Highest(call'.args[2]) + 1))
          /\ ~IsIn(call'.args[2], ret'.value)]_vars

\* generate_id was given 9998, 2, 10 in that order and returned BOOK_9999
C15_Witness ==
    /\ call.op = "generate_id"
    /\ call.args = <<BOOK, <<BOOK \o <<"_", "9", "9", "9", "8">>,
                             BOOK \o <<"_", "0", "0", "0", "2">>,
                             BOOK \o <<"_", "0", "0", "1", "0">> >> >>
    /\ ret = Return(BOOK \o <<"_", "9", "9", "9", "9">>)

\* C19: generate_id has no side effect: after the call the caller's list
\* holds the elements it held before the call, in the same order.
C19_CallerListUntouched ==
    [][call'.op = "generate_id" => existing_ids' = existing_ids]_vars

\* C16: get_available_books returns exactly the books whose available is
\* True, each once, in the order in which they were added (ascending id
\* number), and changes neither memory nor documents.
C16_AvailableInInsertionOrder ==
    [][call'.op = "get_available_books" =>
          /\ ret'.kind = "return"
          /\ LET list == ret'.value
             IN  /\ \A i \in 1..Len(list) :
                       /\ list[i].available
                       /\ \E k \in 1..Len(books) : books[k][2] = list[i]
                 /\ \A k \in 1..Len(books) :
                       books[k][2].available =>
                          Cardinality({i \in 1..Len(list) : list[i] = books[k][2]}) = 1
                 /\ \A i, j \in 1..Len(list) :
                       i < j => Suffix(list[i].book_id) < Suffix(list[j].book_id)
          /\ Unchanged]_vars

\* the serialized books whose available flag equals value
WithAvailable(value) ==
    SelectSeq([i \in 1..Len(books) |->
                  [book_id |-> books[i][2].book_id, title |-> books[i][2].title,
                   author |-> books[i][2].author, genre |-> books[i][2].genre,
                   available |-> books[i][2].available]],
              LAMBDA item : item.available = value)

\* C17: search_books with a criterion on available returns exactly the books
\* whose available flag equals the criterion value, and does not raise.
C17_SearchByAvailable ==
    [][(call'.op = "search_books" /\ DOMAIN call'.args[1] = {"available"})
       => ret' = Return(WithAvailable(call'.args[1].available))]_vars

(***************************************************************************)
(* The two documents                                                       *)
(***************************************************************************)
\* the entries of a document; none when it is absent
Entries(file) == IF file.exists THEN Values(file.data) ELSE <<>>

PersistedHolders(book_id) ==
    {i \in 1..Len(Entries(borrowers_file)) :
        IsIn(Entries(borrowers_file)[i].borrowed_books, book_id)}

\* C18: at every point of a mutating call, the point between the two writes
\* of save included, the two documents are a pair that one completed call
\* wrote; so whenever execution stops, no book is persisted as unavailable
\* that no persisted borrower holds, and no persisted borrower holds a book
\* persisted as available (the formula states this consequence).
C18_DocumentsConsistent ==
    \A i \in 1..Len(Entries(books_file)) :
       LET book == Entries(books_file)[i]
       IN  book.available <=> PersistedHolders(book.book_id) = {}

(***************************************************************************)
(* checkout_book followed by return_book                                   *)
(***************************************************************************)
\* C20: after a checkout_book(b, u) that returned True, the return_book(b, u)
\* called next returns True and leaves every book, every borrower (lists in
\* the same order) and both documents as they were before the checkout; a
\* checkout_book of b called next, by any borrower, returns False.
C20_CheckoutThenReturnRestores ==
    [][(call.op = "checkout_book" /\ ret = Return(TRUE)) =>
          /\ (/\ call'.op = "return_book"
              /\ call'.args = call.args
              /\ ret' # Killed) =>
                 /\ ret' = Return(TRUE)
                 /\ <<books', borrowers', books_file', borrowers_file'>> = before
          /\ (call'.op = "checkout_book" /\ call'.args[1] = call.args[1]) =>
                 ret' = Return(FALSE)]_vars

\* a borrower who held another book has checked out and returned one, and
\* memory and documents are those before the checkout
C20_Witness ==
    /\ call.op = "return_book"
    /\ ret = Return(TRUE)
    /\ before = <<books, borrowers, books_file, borrowers_file>>
    /\ \E i \in 1..Len(borrowers) :
          /\ borrowers[i][1] = call.args[2]
          /\ borrowers[i][2].borrowed_books # <<>>

(***************************************************************************)
(* TodoList (exercises/src/files.py)                                       *)
(* A todo is the dict {"id": int, "task": str, "done": bool}: a record.    *)
(* json.load of the file returns the list of dicts json.dump was given;    *)
(* TodoList keeps dicts in memory as well, so nothing is lost on a reload. *)
(***************************************************************************)
MaxTodos == 4
Buy == <<"B", "u", "y">>
Walk == <<"W", "a", "l", "k">>
Tasks == {Buy, Walk}
TodoIds == 0..MaxTodos

InitTodoList ==
    /\ todos = <<>>
    /\ todos_file = Absent
    /\ n_todos_added = [overall |-> 0, on_object |-> 0]
    /\ call = [op |-> "TodoList", args |-> <<>>]
    /\ ret = Return(None)
    /\ books = <<>>
    /\ borrowers = <<>>
    /\ books_file = Absent
    /\ borrowers_file = Absent
    /\ alive = TRUE
    /\ n_added = [book |-> 0, borrower |-> 0]
    /\ before = <<>>
    /\ existing_ids = <<>>

TodoListOnly ==
    UNCHANGED <<books, borrowers, books_file, borrowers_file, alive, n_added,
                before, existing_ids>>

\* TodoList(filepath): a new object on the same file
TodoList_init ==
    /\ call' = [op |-> "TodoList", args |-> <<>>]
    /\ todos' = IF todos_file.exists THEN todos_file.data ELSE <<>>
    /\ ret' = Return(None)
    /\ n_todos_added' = [n_todos_added EXCEPT !.on_object = 0]
    /\ UNCHANGED todos_file
    /\ TodoListOnly

\* the file after self._save() with self.todos = list
TodoList_save(list) == Document(list)

\* mutant: _next_id from the first todo
next_id_from_first(list) == IF list # <<>> THEN list[1].id + 1 ELSE 1

\* self._next_id() with self.todos = list
next_id(list) == IF list # <<>> THEN list[Len(list)].id + 1 ELSE 1

add(task) ==
    /\ n_todos_added.overall < MaxTodos
    /\ call' = [op |-> "add", args |-> <<task>>]
    /\ todos' = Append(todos, [id |-> next_id(todos), task |-> task, done |-> FALSE])
    /\ todos_file' = TodoList_save(todos')
    /\ ret' = Return(todos'[Len(todos')].id)
    /\ n_todos_added' = [overall |-> n_todos_added.overall + 1,
                         on_object |-> n_todos_added.on_object + 1]
    /\ TodoListOnly

\* the loop stops at the first todo whose id is todo_id
complete(todo_id) ==
    /\ call' = [op |-> "complete", args |-> <<todo_id>>]
    /\ IF \E i \in 1..Len(todos) : todos[i].id = todo_id
       THEN LET i == CHOOSE j \in 1..Len(todos) :
                        todos[j].id = todo_id /\ \A k \in 1..(j - 1) : todos[k].id # todo_id
            IN  /\ todos' = [todos EXCEPT ![i].done = TRUE]
                /\ todos_file' = TodoList_save(todos')
                /\ ret' = Return(TRUE)
       ELSE /\ ret' = Return(FALSE)
            /\ UNCHANGED <<todos, todos_file>>
    /\ UNCHANGED n_todos_added
    /\ TodoListOnly

get_pending ==
    /\ call' = [op |-> "get_pending", args |-> <<>>]
    /\ ret' = Return(SelectSeq(todos, LAMBDA todo : ~todo.done))
    /\ UNCHANGED todo_vars
    /\ TodoListOnly

get_all ==
    /\ call' = [op |-> "get_all", args |-> <<>>]
    /\ ret' = Return(todos)
    /\ UNCHANGED todo_vars
    /\ TodoListOnly

NextTodoList ==
    \/ TodoList_init
    \/ \E task \in Tasks : add(task)
    \/ \E todo_id \in TodoIds : complete(todo_id)
    \/ get_pending
    \/ get_all

SpecTodoList == InitTodoList /\ [][NextTodoList]_vars

\* C21: over any sequence of add and complete calls, with a new TodoList
\* constructed on the same file at any point, the todo ids are distinct, the
\* k-th add overall returns k and appends the todo with id k, complete(id)
\* returns True and sets done exactly when a todo with that id exists and
\* otherwise returns False and changes nothing, and after every add and every
\* complete that returned True the file holds the in-memory list.
C21_TodoIdsAndPersistence ==
    /\ [](\A i, j \in 1..Len(todos) : todos[i].id = todos[j].id => i = j)
    /\ [][/\ call'.op = "add" =>
                /\ ret' = Return(n_todos_added.overall + 1)
                /\ todos' = Append(todos, [id |-> n_todos_added.overall + 1,
                                           task |-> call'.args[1], done |-> FALSE])
                /\ todos_file' = [exists |-> TRUE, data |-> todos']
          /\ call'.op = "complete" =>
                LET found == {i \in 1..Len(todos) : todos[i].id = call'.args[1]}
                IN  IF found # {}
                    THEN /\ ret' = Return(TRUE)
                         /\ Len(todos') = Len(todos)
                         /\ \A i \in 1..Len(todos) :
                               /\ todos'[i].id = todos[i].id
                               /\ todos'[i].task = todos[i].task
                               /\ todos'[i].done = (todos[i].done \/ i \in found)
                         /\ todos_file' = [exists |-> TRUE, data |-> todos']
                    ELSE /\ ret' = Return(FALSE)
                         /\ UNCHANGED <<todos, todos_file>>]_vars

\* the third add overall, the first on a TodoList constructed on the file two
\* adds had written, returned 3
C21_Witness ==
    /\ call.op = "add"
    /\ ret = Return(3)
    /\ n_todos_added = [overall |-> 3, on_object |-> 1]
    /\ todos_file = [exists |-> TRUE, data |-> todos]
    /\ todos[1].done

====
